---- MODULE Spec2Model ----
(***************************************************************************)
(* State-machine model of the Valid8 attendance backend: the events and    *)
(* attendance routers (app/routers/events.py, app/routers/attendance.py)   *)
(* over the relational state declared in app/models.  Every action is one  *)
(* request handler run to completion against the committed database state  *)
(* (one session per request, app/database.py), including its rollback on   *)
(* failure.  `last` holds the request handled by the latest step and the    *)
(* response the client got for it.                                         *)
(***************************************************************************)
EXTENDS Integers, Sequences, FiniteSets, TLC

VARIABLES
    users,             \* users table with the role names of each user
    student_profiles,  \* student_profiles table
    ssg_profiles,      \* ssg_profiles table
    departments,       \* ids of the departments table
    programs,          \* ids of the programs table
    program_departments, \* program_department_association: <<program, department>>
    events,            \* events table with the three membership sets
    attendances,       \* attendances table, keyed by primary key
    now,               \* the wall clock, in seconds
    ticks,             \* how many times the clock has advanced
    last,              \* latest request and its response
    roles,             \* names in the roles table
    tokens,            \* access tokens issued by login so far
    bearer,            \* Authorization header of the latest request
    inflight           \* check-in requests between their query and their commit

vars == <<users, student_profiles, ssg_profiles, departments, programs, program_departments,
          events, attendances, now, ticks, last, roles, tokens, bearer, inflight>>

\* What the event and attendance handlers never write.
catalog == <<users, student_profiles, ssg_profiles, departments, programs, program_departments,
             roles, tokens, inflight>>

----------------------------------------------------------------------------
(* Bounds of the model *)

MaxEvents == 2      \* events in the table
MaxRows == 3        \* attendance rows in the table (clock specification)
MaxMarkRows == 2    \* attendance rows in the table (marking specification)
MaxTicks == 3       \* clock advances
MaxDate == 2        \* event datetimes range over 1..MaxDate
MaxBatch == 2       \* records in one bulk request
MaxUsers == 4       \* rows of the users table
MaxTokens == 2      \* access tokens issued

(* Program constants *)

NULL == -1                       \* SQL NULL / Python None for integer columns
COOLDOWN_SECONDS == 300          \* face-scan duplicate window
SECONDS_PER_MINUTE == 60         \* divisor of the duration computation

NoneStr == "None"                \* Python None for an Optional[str] / enum

\* Steps by which the clock advances: one second, and one second short of
\* the cooldown, so that both sides of every 300 s and 60 s edge are reached.
TickSteps == {1, COOLDOWN_SECONDS - 1}

EventStatus == {"upcoming", "ongoing", "completed", "cancelled"}
AttendanceStatus == {"present", "absent", "excused"}

AUTO_ABSENT_NOTE == "Auto-marked absent - no time-out recorded."

----------------------------------------------------------------------------
(* Helpers *)

\* The set of elements of a list (Python's set(list)).
ListSet(s) == {s[i] : i \in DOMAIN s}

\* Variant of HasAnyRole that lets every caller pass.
HasAnyRoleAlways(caller, allowed) == TRUE

\* Variant of HasAnyRole that reads the role names the token carries.
HasAnyRoleOfToken(caller, allowed) == bearer'.roles \cap allowed # {}

\* any(role.role.name in allowed for role in current_user.roles)
HasAnyRole(caller, allowed) == users[caller].roles \cap allowed # {}

\* db.query(StudentProfile).filter(student_id == sid).first(): the profiles
\* matching a student identifier (student_id is unique: at most one).
StudentsByStudentId(sid) == {p \in student_profiles : p.student_id = sid}

\* Rows of the attendances table for a (student profile, event) pair.
RowsOfPair(att, student, event_id) ==
    {i \in DOMAIN att : att[i].student_id = student /\ att[i].event_id = event_id}

\* The primary key the attendances sequence hands out next.
NextAttendanceId(att) ==
    IF DOMAIN att = {} THEN 1
    ELSE 1 + (CHOOSE m \in DOMAIN att : \A i \in DOMAIN att : i <= m)

\* The primary key the events sequence hands out next.
NextEventId(ev) ==
    IF DOMAIN ev = {} THEN 1
    ELSE 1 + (CHOOSE m \in DOMAIN ev : \A i \in DOMAIN ev : i <= m)

\* f extended (or overwritten) at key k with value v.
Put(f, k, v) == [x \in DOMAIN f \cup {k} |-> IF x = k THEN v ELSE f[x]]

\* Variant of DurationMinutes that rounds up instead of truncating.
DurationMinutesCeil(time_in, time_out) ==
    (time_out - time_in + SECONDS_PER_MINUTE - 1) \div SECONDS_PER_MINUTE

\* Python's int(x / 60) on a number of seconds: truncation toward zero.
DurationMinutes(time_in, time_out) ==
    LET d == time_out - time_in
    IN  IF d >= 0 THEN d \div SECONDS_PER_MINUTE
        ELSE -((-d) \div SECONDS_PER_MINUTE)

Response(op, req, code, res) == [op |-> op, req |-> req, code |-> code, res |-> res]

NoRes == [none |-> TRUE]

----------------------------------------------------------------------------
(* Initial state: a seeded catalogue, no events, no attendance *)

\* RoleEnum: the role names a request can carry and the seeder creates.
RoleNames == {"student", "ssg", "event-organizer", "admin"}

\* User.set_password / get_password_hash: a bcrypt hash, which verifies
\* against the password it was made from and no other.
get_password_hash(password) == [scheme |-> "bcrypt", of |-> password]

\* The request carried no Authorization header because the endpoint takes none.
NoBearer == [kind |-> "none"]

\* Two check-in requests can be in flight at once.
Slots == {1, 2}

IdleSlot == [pc |-> "idle"]

InitTables ==
    /\ users = [u \in {1, 2, 3} |->
                  [email |-> CASE u = 1 -> "ssg@u.edu"
                               [] u = 2 -> "admin@u.edu"
                               [] OTHER -> "student@u.edu",
                   password_hash |-> get_password_hash("Passw0rd1"),
                   roles |-> CASE u = 1 -> {"ssg"}
                               [] u = 2 -> {"admin"}
                               [] OTHER -> {"student"}]]
    /\ tokens = {}
    /\ bearer = NoBearer
    /\ inflight = [r \in Slots |-> IdleSlot]
    /\ student_profiles = {[id |-> 1, user_id |-> 3, student_id |-> "S1",
                            department_id |-> 1, program_id |-> 1],
                           [id |-> 2, user_id |-> 2, student_id |-> "S2",
                            department_id |-> 1, program_id |-> 1]}
    /\ ssg_profiles = {[id |-> 7, user_id |-> 1]}
    /\ departments = {1}
    /\ programs = {1}
    /\ program_departments = {<<1, 1>>}
    /\ events = << >>
    /\ attendances = << >>
    /\ now = 0
    /\ ticks = 0
    /\ last = Response("none", NoRes, 0, NoRes)

\* The database as the seeder leaves it: every role of RoleEnum is a row.
Init ==
    /\ InitTables
    /\ roles = RoleNames

----------------------------------------------------------------------------
(* app/routers/events.py *)

\* The ID-list check of create_event: a non-empty list must resolve fully;
\* the query returns each existing row once, the list is counted with
\* its repetitions.
ListResolves(ids, existing) ==
    Cardinality(ListSet(ids) \cap existing) = Len(ids)

SsgUserIds == {p.user_id : p \in ssg_profiles}

SsgProfilesOf(ids) == {p.id : p \in {q \in ssg_profiles : q.user_id \in ListSet(ids)}}

\* Variant of CreateOrderViolated that lets start = end through.
CreateOrderViolatedStrict(start, end) == start > end

\* `if event.start_datetime >= event.end_datetime` of create_event.
CreateOrderViolated(start, end) == start >= end

\* The status of the first check of create_event that raises, or 201.
\* The SSG-member block is nested inside the `if event.program_ids:` block.
CreateEventOutcome(caller, ev) ==
    IF ~HasAnyRole(caller, {"ssg", "admin", "event-organizer"}) THEN 403
    ELSE IF CreateOrderViolated(ev.start_datetime, ev.end_datetime) THEN 400
    ELSE IF ev.department_ids # << >> /\ ~ListResolves(ev.department_ids, departments) THEN 404
    ELSE IF ev.program_ids # << >> /\ ~ListResolves(ev.program_ids, programs) THEN 404
    ELSE IF ev.program_ids # << >> /\ ev.ssg_member_ids # << >>
            /\ ~ListResolves(ev.ssg_member_ids, SsgUserIds) THEN 404
    ELSE 201

\* `except Exception` of create_event catches the HTTPException raised inside
\* the try block, rolls back and answers 500.
CreateEventCode(outcome) == IF outcome = 201 THEN 201 ELSE 500

NewEventRow(ev) ==
    [name |-> ev.name,
     location |-> ev.location,
     start_datetime |-> ev.start_datetime,
     end_datetime |-> ev.end_datetime,
     status |-> ev.status,
     departments |-> ListSet(ev.department_ids),
     programs |-> ListSet(ev.program_ids),
     ssg_members |-> IF ev.program_ids # << >> THEN SsgProfilesOf(ev.ssg_member_ids) ELSE {}]

create_event(caller, ev) ==
    /\ LET outcome == CreateEventOutcome(caller, ev)
           id == NextEventId(events)
       IN  /\ events' = IF outcome = 201 THEN Put(events, id, NewEventRow(ev)) ELSE events
           /\ last' = Response("create_event", [caller |-> caller, event |-> ev],
                               CreateEventCode(outcome),
                               [event_id |-> IF outcome = 201 THEN id ELSE NULL])
    /\ UNCHANGED <<catalog, attendances, now, ticks>>

\* An Optional[List[int]] of EventUpdate: {} is None, {ids} is the list ids.
IsNone(opt) == opt = {}
Some(opt) == CHOOSE x \in opt : TRUE

\* The replace-if-provided check of update_event for one membership list:
\* a provided list (the empty one too) must resolve fully.
UpdateListResolves(opt, existing) ==
    IsNone(opt) \/ ListResolves(Some(opt), existing)

\* `if new_start >= new_end` of update_event.
UpdateOrderViolated(new_start, new_end) == new_start >= new_end

\* The status of the first check of update_event that raises, or 200.
UpdateEventOutcome(caller, event_id, upd) ==
    IF ~HasAnyRole(caller, {"ssg", "admin", "event-organizer"}) THEN 403
    ELSE IF event_id \notin DOMAIN events THEN 404
    ELSE LET db_event == events[event_id]
             new_start == IF upd.start_datetime # NULL THEN upd.start_datetime
                          ELSE db_event.start_datetime
             new_end == IF upd.end_datetime # NULL THEN upd.end_datetime
                        ELSE db_event.end_datetime
         IN  IF UpdateOrderViolated(new_start, new_end) THEN 400
             ELSE IF ~UpdateListResolves(upd.department_ids, departments) THEN 404
             ELSE IF ~UpdateListResolves(upd.program_ids, programs) THEN 404
             ELSE IF ~UpdateListResolves(upd.ssg_member_ids, SsgUserIds) THEN 404
             ELSE 200

UpdatedEventRow(db_event, upd) ==
    [name |-> IF upd.name # NoneStr THEN upd.name ELSE db_event.name,
     location |-> IF upd.location # NoneStr THEN upd.location ELSE db_event.location,
     start_datetime |-> IF upd.start_datetime # NULL THEN upd.start_datetime
                        ELSE db_event.start_datetime,
     end_datetime |-> IF upd.end_datetime # NULL THEN upd.end_datetime
                      ELSE db_event.end_datetime,
     status |-> IF upd.status # NoneStr THEN upd.status ELSE db_event.status,
     departments |-> IF IsNone(upd.department_ids) THEN db_event.departments
                     ELSE ListSet(Some(upd.department_ids)),
     programs |-> IF IsNone(upd.program_ids) THEN db_event.programs
                  ELSE ListSet(Some(upd.program_ids)),
     ssg_members |-> IF IsNone(upd.ssg_member_ids) THEN db_event.ssg_members
                     ELSE SsgProfilesOf(Some(upd.ssg_member_ids))]

\* The event as the session holds it when update_event leaves its try
\* block: the fields are assigned first, then each provided list is emptied
\* and flushed before its ids are looked up, so a raise at a list leaves
\* that list empty, the earlier ones replaced and the later ones untouched.
PendingEventRow(db_event, upd) ==
    LET full == UpdatedEventRow(db_event, upd)
    IN  IF UpdateOrderViolated(full.start_datetime, full.end_datetime) THEN db_event
        ELSE IF ~UpdateListResolves(upd.department_ids, departments)
             THEN [full EXCEPT !.departments = {}, !.programs = db_event.programs,
                               !.ssg_members = db_event.ssg_members]
        ELSE IF ~UpdateListResolves(upd.program_ids, programs)
             THEN [full EXCEPT !.programs = {}, !.ssg_members = db_event.ssg_members]
        ELSE IF ~UpdateListResolves(upd.ssg_member_ids, SsgUserIds)
             THEN [full EXCEPT !.ssg_members = {}]
        ELSE full

\* Variant of Rollback that leaves what the session has flushed.
RollbackKeepsFlushed(committed, pending) == pending

\* db.rollback(): the row is again what the last commit made it.
Rollback(committed, pending) == committed

\* update_event: every except clause rolls back; HTTPException is re-raised
\* with its own status.
update_event(caller, event_id, upd) ==
    /\ LET outcome == UpdateEventOutcome(caller, event_id, upd)
       IN  /\ events' = IF outcome = 200
                        THEN [events EXCEPT ![event_id] = PendingEventRow(@, upd)]
                        ELSE IF outcome # 403 /\ event_id \in DOMAIN events
                        THEN [events EXCEPT ![event_id] =
                                 Rollback(@, PendingEventRow(@, upd))]
                        ELSE events
           /\ last' = Response("update_event",
                               [caller |-> caller, event_id |-> event_id, update |-> upd],
                               outcome, NoRes)
    /\ UNCHANGED <<catalog, attendances, now, ticks>>

\* The status of the first check of update_event_status that raises, or 200.
UpdateEventStatusOutcome(caller, event_id) ==
    IF ~HasAnyRole(caller, {"ssg", "admin", "event-organizer"}) THEN 403
    ELSE IF event_id \notin DOMAIN events THEN 404
    ELSE 200

\* `except Exception` of update_event_status turns every raise into 500.
UpdateEventStatusCode(outcome) == IF outcome = 200 THEN 200 ELSE 500

update_event_status(caller, event_id, status) ==
    /\ LET outcome == UpdateEventStatusOutcome(caller, event_id)
       IN  /\ events' = IF outcome = 200
                        THEN [events EXCEPT ![event_id].status = status]
                        ELSE events
           /\ last' = Response("update_event_status",
                               [caller |-> caller, event_id |-> event_id, status |-> status],
                               UpdateEventStatusCode(outcome), NoRes)
    /\ UNCHANGED <<catalog, attendances, now, ticks>>

\* Whether the Event model has the `attendances` relationship delete_event
\* loads and walks: it has departments, programs and ssg_members only, so
\* evaluating EventModel.attendances raises AttributeError.
EventHasAttendances == FALSE

\* Event ids without the one given, with their rows.
Without(f, k) == [x \in DOMAIN f \ {k} |-> f[x]]

\* DELETE /events/{event_id}: the role check, then the query that names
\* EventModel.attendances, then the lookup, the clearing of the membership
\* lists, the deletion of the attendance rows and of the event.
delete_event(caller, event_id) ==
    /\ LET req == [caller |-> caller, event_id |-> event_id]
           reject(code) == /\ events' = events
                           /\ attendances' = attendances
                           /\ last' = Response("delete_event", req, code, NoRes)
       IN  IF ~HasAnyRole(caller, {"admin", "event-organizer"}) THEN reject(403)
           ELSE IF ~EventHasAttendances THEN reject(500)
           ELSE IF event_id \notin DOMAIN events THEN reject(404)
           ELSE /\ events' = Without(events, event_id)
                /\ attendances' =
                      [i \in {j \in DOMAIN attendances : attendances[j].event_id # event_id}
                         |-> attendances[i]]
                /\ last' = Response("delete_event", req, 204, NoRes)
    /\ UNCHANGED <<catalog, now, ticks>>

----------------------------------------------------------------------------
(* The clock *)

Tick(d) ==
    /\ now' = now + d
    /\ ticks' = ticks + 1
    /\ last' = Response("none", NoRes, 0, NoRes)
    /\ UNCHANGED <<catalog, events, attendances>>


----------------------------------------------------------------------------
(* app/routers/attendance.py *)

\* The student profile with the given student identifier (caller has checked
\* that there is one).
StudentOf(sid) == CHOOSE p \in StudentsByStudentId(sid) : TRUE

\* What `.first()` of a query without ORDER BY may return for the matching
\* rows: any one of them, or None when there is none.
FirstOf(rows) == IF rows = {} THEN {NULL} ELSE rows

\* Attendance(...) as the check-in handlers build it; time_out stays NULL.
NewAttendance(student, event_id, method, status, caller, notes) ==
    [student_id |-> student, event_id |-> event_id, time_in |-> now, time_out |-> NULL,
     method |-> method, status |-> status, verified_by |-> caller, notes |-> notes]

\* The foreign key attendances.event_id -> events.id, checked at commit.
EventFkHolds(event_id) == event_id \in DOMAIN events

FaceScanReq(caller, event_id, student_id) ==
    [caller |-> caller, event_id |-> event_id, student_id |-> student_id]

\* The face-scan cooldown test on the row `.first()` returned.
WithinCooldown(existing) ==
    existing # NULL /\ now - attendances[existing].time_in < COOLDOWN_SECONDS

record_face_scan_attendance(caller, event_id, student_id) ==
    /\ LET req == FaceScanReq(caller, event_id, student_id)
           reject(code) == /\ attendances' = attendances
                           /\ last' = Response("record_face_scan_attendance", req, code,
                                               [attendance_id |-> NULL])
       IN  IF "ssg" \notin users[caller].roles THEN reject(403)
           ELSE IF StudentsByStudentId(student_id) = {} THEN reject(404)
           ELSE LET student == StudentOf(student_id).id
                IN  \E existing \in FirstOf(RowsOfPair(attendances, student, event_id)) :
                       IF WithinCooldown(existing) THEN reject(400)
                       ELSE IF ~EventFkHolds(event_id) THEN reject(500)
                       ELSE LET id == NextAttendanceId(attendances)
                            IN  /\ attendances' = Put(attendances, id,
                                      NewAttendance(student, event_id, "face_scan",
                                                    "present", caller, << >>))
                                /\ last' = Response("record_face_scan_attendance", req, 200,
                                                    [attendance_id |-> id])
    /\ UNCHANGED <<catalog, events, now, ticks>>

ManualReq(caller, data) == [caller |-> caller, data |-> data]

\* Variant of ManualExists that never finds a row.
ManualExistsNever(existing) == FALSE

\* The duplicate test of record_manual_attendance on the row `.first()` returned.
ManualExists(existing) == existing # NULL

record_manual_attendance(caller, data) ==
    /\ LET req == ManualReq(caller, data)
           reject(code) == /\ attendances' = attendances
                           /\ last' = Response("record_manual_attendance", req, code,
                                               [attendance_id |-> NULL])
       IN  IF "ssg" \notin users[caller].roles THEN reject(403)
           ELSE IF StudentsByStudentId(data.student_id) = {} THEN reject(404)
           ELSE LET student == StudentOf(data.student_id).id
                IN  \E existing \in FirstOf(RowsOfPair(attendances, student, data.event_id)) :
                       IF ManualExists(existing) THEN reject(400)
                       ELSE IF ~EventFkHolds(data.event_id) THEN reject(500)
                       ELSE LET id == NextAttendanceId(attendances)
                            IN  /\ attendances' = Put(attendances, id,
                                      NewAttendance(student, data.event_id, "manual",
                                                    "present", caller, data.notes))
                                /\ last' = Response("record_manual_attendance", req, 200,
                                                    [attendance_id |-> id])
    /\ UNCHANGED <<catalog, events, now, ticks>>

\* The per-item outcome of record_bulk_attendance.  The session does not
\* autoflush (app/database.py), so the existence query sees the committed
\* rows only, not the rows added for earlier items of the same batch.
BulkItemStatus(record) ==
    IF StudentsByStudentId(record.student_id) = {} THEN "not_found"
    ELSE IF RowsOfPair(attendances, StudentOf(record.student_id).id, record.event_id) # {}
         THEN "exists"
         ELSE "recorded"

BulkResults(records) ==
    [i \in DOMAIN records |->
        [student_id |-> records[i].student_id, status |-> BulkItemStatus(records[i])]]

\* Indexes of the items of the batch for which a row is added, in input order.
BulkRecorded(records) == {i \in DOMAIN records : BulkItemStatus(records[i]) = "recorded"}

\* The rows added by the batch, keyed by the primary keys they get.
BulkNewRows(caller, records) ==
    LET rec == BulkRecorded(records)
        rank(i) == Cardinality({j \in rec : j < i})
        base == NextAttendanceId(attendances)
    IN  [id \in {base + rank(i) : i \in rec} |->
            LET i == CHOOSE j \in rec : base + rank(j) = id
            IN  NewAttendance(StudentOf(records[i].student_id).id, records[i].event_id,
                              "manual", "present", caller, records[i].notes)]

\* f and g merged, g's domain being disjoint from f's.
Merge(f, g) == [x \in DOMAIN f \cup DOMAIN g |-> IF x \in DOMAIN g THEN g[x] ELSE f[x]]

record_bulk_attendance(caller, records) ==
    /\ LET req == [caller |-> caller, records |-> records]
           reject(code) == /\ attendances' = attendances
                           /\ last' = Response("record_bulk_attendance", req, code, NoRes)
       IN  IF "ssg" \notin users[caller].roles THEN reject(403)
           ELSE LET new == BulkNewRows(caller, records)
                IN  IF \E id \in DOMAIN new : ~EventFkHolds(new[id].event_id)
                    THEN reject(500)
                    ELSE /\ attendances' = Merge(attendances, new)
                         /\ last' = Response("record_bulk_attendance", req, 200,
                                             [processed |-> Len(records),
                                              results |-> BulkResults(records)])
    /\ UNCHANGED <<catalog, events, now, ticks>>


\* The known students among the identifiers of a mark-excused request.
ExcuseStudents(student_ids) ==
    {p.id : p \in {q \in student_profiles : q.student_id \in student_ids}}

\* Variant of ExcuseNewRows that adds a row for every known student, with or
\* without an earlier row.
ExcuseNewRowsAlways(caller, event_id, student_ids, reason) ==
    LET fresh == ExcuseStudents(student_ids)
        rank(st) == Cardinality({t \in fresh : t < st})
        base == NextAttendanceId(attendances)
    IN  [id \in {base + rank(st) : st \in fresh} |->
            LET st == CHOOSE t \in fresh : base + rank(t) = id
            IN  NewAttendance(st, event_id, "manual", "excused", caller, reason)]

\* The rows mark_excused_attendance adds: one for each known student whose
\* pair has no row, in profile order; time_in takes the column default (now).
ExcuseNewRows(caller, event_id, student_ids, reason) ==
    LET fresh == {st \in ExcuseStudents(student_ids) :
                     RowsOfPair(attendances, st, event_id) = {}}
        rank(st) == Cardinality({t \in fresh : t < st})
        base == NextAttendanceId(attendances)
    IN  [id \in {base + rank(st) : st \in fresh} |->
            LET st == CHOOSE t \in fresh : base + rank(t) = id
            IN  NewAttendance(st, event_id, "manual", "excused", caller, reason)]

mark_excused_attendance(caller, event_id, student_ids, reason) ==
    /\ LET req == [caller |-> caller, event_id |-> event_id,
                   student_ids |-> student_ids, reason |-> reason]
           reject(code) == /\ attendances' = attendances
                           /\ last' = Response("mark_excused_attendance", req, code, NoRes)
           students == ExcuseStudents(student_ids)
           having == {st \in students : RowsOfPair(attendances, st, event_id) # {}}
           new == ExcuseNewRows(caller, event_id, student_ids, reason)
       IN  IF ~HasAnyRole(caller, {"ssg", "admin"}) THEN reject(403)
           ELSE IF DOMAIN new # {} /\ ~EventFkHolds(event_id) THEN reject(500)
           ELSE \E first \in [having -> DOMAIN attendances] :
                   /\ \A st \in having : first[st] \in RowsOfPair(attendances, st, event_id)
                   /\ attendances' = Merge(
                         [i \in DOMAIN attendances |->
                             IF \E st \in having : first[st] = i
                             THEN [attendances[i] EXCEPT !.status = "excused", !.notes = reason]
                             ELSE attendances[i]],
                         new)
                   /\ last' = Response("mark_excused_attendance", req, 200,
                                       [marked |-> Cardinality(students)])
    /\ UNCHANGED <<catalog, events, now, ticks>>

\* Variant of TimeOutRecorded that never sees a time-out.
TimeOutRecordedNever(row) == FALSE

\* `if attendance.time_out:` of record_time_out.
TimeOutRecorded(row) == row.time_out # NULL

record_time_out(caller, attendance_id) ==
    /\ LET req == [caller |-> caller, attendance_id |-> attendance_id]
           reject(code) == /\ attendances' = attendances
                           /\ last' = Response("record_time_out", req, code,
                                               [attendance_id |-> NULL])
       IN  IF ~HasAnyRole(caller, {"ssg", "admin"}) THEN reject(403)
           ELSE IF attendance_id \notin DOMAIN attendances THEN reject(404)
           ELSE IF TimeOutRecorded(attendances[attendance_id]) THEN reject(400)
           ELSE /\ attendances' = [attendances EXCEPT ![attendance_id].time_out = now]
                /\ last' = Response("record_time_out", req, 200,
                      [attendance_id |-> attendance_id,
                       time_in |-> attendances[attendance_id].time_in,
                       time_out |-> now,
                       duration_minutes |->
                           DurationMinutes(attendances[attendance_id].time_in, now)])
    /\ UNCHANGED <<catalog, events, now, ticks>>

\* The rows the face-scan time-out query matches: the pair's rows with
\* time_out IS NULL.
ActiveRowsOfPair(att, student, event_id) ==
    {i \in RowsOfPair(att, student, event_id) : att[i].time_out = NULL}

record_face_scan_timeout(caller, event_id, student_id) ==
    /\ LET req == FaceScanReq(caller, event_id, student_id)
           reject(code) == /\ attendances' = attendances
                           /\ last' = Response("record_face_scan_timeout", req, code,
                                               [attendance_id |-> NULL])
       IN  IF "ssg" \notin users[caller].roles THEN reject(403)
           ELSE IF StudentsByStudentId(student_id) = {} THEN reject(404)
           ELSE LET student == StudentOf(student_id).id
                IN  \E attendance \in FirstOf(ActiveRowsOfPair(attendances, student, event_id)) :
                       IF attendance = NULL THEN reject(404)
                       ELSE IF attendances[attendance].time_out # NULL THEN reject(400)
                       ELSE /\ attendances' = [attendances EXCEPT ![attendance].time_out = now]
                            /\ last' = Response("record_face_scan_timeout", req, 200,
                                  [attendance_id |-> attendance,
                                   time_in |-> attendances[attendance].time_in,
                                   time_out |-> now,
                                   duration_minutes |->
                                       DurationMinutes(attendances[attendance].time_in, now)])
    /\ UNCHANGED <<catalog, events, now, ticks>>

\* Variant of SweepRefused that sweeps whatever the status.
SweepRefusedNever(event) == FALSE

\* `if event.status != EventStatus.COMPLETED` of mark_absent_no_timeout.
SweepRefused(event) == event.status # "completed"

\* Variant of SweepTargets that ignores the status of the row.
SweepTargetsAnyStatus(att, event_id) ==
    {i \in DOMAIN att : att[i].event_id = event_id /\ att[i].time_out = NULL}

\* The rows the absentee sweep updates: rows of the event with time_in set,
\* time_out NULL and status present (time_in is NOT NULL in every row).
SweepTargets(att, event_id) ==
    {i \in DOMAIN att : /\ att[i].event_id = event_id
                        /\ att[i].time_in # NULL
                        /\ att[i].time_out = NULL
                        /\ att[i].status = "present"}

\* f"Auto-marked absent - no time-out recorded. {notes or ''}".strip()
AutoAbsentNotes(notes) == <<AUTO_ABSENT_NOTE>> \o notes

mark_absent_no_timeout(caller, event_id) ==
    /\ LET req == [caller |-> caller, event_id |-> event_id]
           reject(code) == /\ attendances' = attendances
                           /\ last' = Response("mark_absent_no_timeout", req, code, NoRes)
       IN  IF ~HasAnyRole(caller, {"ssg", "admin"}) THEN reject(403)
           ELSE IF event_id \notin DOMAIN events THEN reject(404)
           ELSE IF SweepRefused(events[event_id]) THEN reject(400)
           ELSE LET targets == SweepTargets(attendances, event_id)
                IN  /\ attendances' =
                          [i \in DOMAIN attendances |->
                              IF i \in targets
                              THEN [attendances[i] EXCEPT
                                       !.status = "absent",
                                       !.notes = AutoAbsentNotes(attendances[i].notes)]
                              ELSE attendances[i]]
                    /\ last' = Response("mark_absent_no_timeout", req, 200,
                                        [updated_count |-> Cardinality(targets)])
    /\ UNCHANGED <<catalog, events, now, ticks>>



\* The rows the overview query of a student joins and groups: the rows of
\* the student whose event is stored (no date filter given).
OverviewRows(student) ==
    {i \in DOMAIN attendances : /\ attendances[i].student_id = student
                                /\ attendances[i].event_id \in DOMAIN events}

\* func.count(case((status == 'present', 1))): rows, not events.
total_attended(student) ==
    Cardinality({i \in OverviewRows(student) : attendances[i].status = "present"})

\* func.count(func.distinct(event_id))
total_events(student) ==
    Cardinality({attendances[i].event_id : i \in OverviewRows(student)})

\* round((attended / total_events * 100) if total_events > 0 else 0, 2), in
\* hundredths of a percent, rounded to the nearest.
attendance_rate(attended, total) ==
    IF total > 0 THEN (attended * 20000 + total) \div (2 * total) ELSE 0

\* GET /attendance/students/overview without filters: one item for each
\* student profile.  The role check names "event_organizer", a role the
\* roles table does not have.
get_students_attendance_overview(caller) ==
    /\ last' = IF ~HasAnyRole(caller, {"ssg", "admin", "event_organizer"})
               THEN Response("get_students_attendance_overview", [caller |-> caller],
                             403, NoRes)
               ELSE Response("get_students_attendance_overview", [caller |-> caller], 200,
                       [st \in {p.id : p \in student_profiles} |->
                           [total_events |-> total_events(st),
                            attendance_rate |->
                               attendance_rate(total_attended(st), total_events(st))]])
    /\ UNCHANGED <<catalog, events, attendances, now, ticks>>

----------------------------------------------------------------------------
(* app/core/security.py, app/routers/auth.py *)

SECRET_KEY == "your-strong-secret-key"
ACCESS_TOKEN_EXPIRE_MINUTES == 30

\* Everything of the state but the latest request and its header.
stored == <<users, student_profiles, ssg_profiles, departments, programs,
            program_departments, roles,
            events, attendances>>

\* db.query(User).filter(User.email == email): the users with that email.
UsersByEmail(email) == {u \in DOMAIN users : users[u].email = email}

\* Variant of verify_password that accepts every password.
VerifyAnyPassword(plain_password, hashed_password) == TRUE

\* pwd_context.verify(plain_password, hashed_password)
verify_password(plain_password, hashed_password) ==
    hashed_password = get_password_hash(plain_password)

\* The user the credentials belong to, or NULL.
authenticate_user(email, password) ==
    LET found == UsersByEmail(email)
    IN  IF found = {} THEN NULL
        ELSE LET user == CHOOSE u \in found : TRUE
             IN  IF verify_password(password, users[user].password_hash) THEN user
                 ELSE NULL

\* jwt.encode of the claims with exp = utcnow() + expires_delta (in minutes).
create_access_token(sub, role_names, user_id, expires_minutes) ==
    [kind |-> "jwt", key |-> SECRET_KEY, sub |-> sub, roles |-> role_names,
     user_id |-> user_id, exp |-> now + expires_minutes * SECONDS_PER_MINUTE]

\* POST /login (POST /token does the same with form fields).
login_with_email(email, password) ==
    /\ LET req == [email |-> email, password |-> password]
           user == authenticate_user(email, password)
       IN  IF user = NULL
           THEN /\ tokens' = tokens
                /\ last' = Response("login_with_email", req, 401, NoRes)
           ELSE LET access_token == create_access_token(users[user].email,
                                       users[user].roles, user,
                                       ACCESS_TOKEN_EXPIRE_MINUTES)
                IN  /\ tokens' = tokens \cup {access_token}
                    /\ last' = Response("login_with_email", req, 200,
                                        [access_token |-> access_token,
                                         user_id |-> user])
    /\ bearer' = NoBearer
    /\ UNCHANGED <<stored, now, ticks, inflight>>

\* Variant of TokenExpired that refuses a token a minute before its exp.
TokenExpiredEarly(token) == token.exp - SECONDS_PER_MINUTE < now

\* The exp check of jwt.decode: a token is refused once the clock is past exp.
TokenExpired(token) == token.exp < now

\* get_current_user / get_current_user_with_roles: the user of the bearer
\* token, or NULL where the dependency answers 401 (no header, a string that
\* is not a JWT, a signature by another key, exp passed, no sub, no user
\* with the email in sub).
get_current_user(token) ==
    IF token.kind # "jwt" THEN NULL
    ELSE IF token.key # SECRET_KEY \/ TokenExpired(token) THEN NULL
    ELSE IF token.sub = NoneStr THEN NULL
    ELSE IF UsersByEmail(token.sub) = {} THEN NULL
    ELSE CHOOSE u \in UsersByEmail(token.sub) : TRUE

\* A protected request whose dependency raises 401: no handler runs.
Unauthenticated(token) ==
    /\ get_current_user(token) = NULL
    /\ bearer' = token
    /\ last' = Response("get_current_user", [token |-> token], 401, NoRes)
    /\ UNCHANGED <<stored, tokens, now, ticks, inflight>>

\* A protected request whose dependency hands the handler a user.
Authenticated(token) ==
    /\ get_current_user(token) # NULL
    /\ bearer' = token

----------------------------------------------------------------------------
(* app/routers/users.py *)

\* has_required_roles(user, required_roles)
has_required_roles(user, required_roles) == users[user].roles \cap required_roles # {}

\* The primary key the users sequence hands out next.
NextUserId(us) ==
    IF DOMAIN us = {} THEN 1
    ELSE 1 + (CHOOSE m \in DOMAIN us : \A i \in DOMAIN us : i <= m)

\* Variant of EmailTaken that never finds the email.
EmailNeverTaken(email) == FALSE

\* `db.query(UserModel).filter(UserModel.email == email).first()` as a test.
EmailTaken(email) == UsersByEmail(email) # {}

\* The role names of a request that are rows of the roles table.
RolesExist(role_names) == ListSet(role_names) \subseteq roles

\* POST /users/: the user row is committed before the roles are looked up;
\* a role that is no row of the roles table rolls back the role
\* assignments made so far, not the user.
create_user(user) ==
    /\ LET id == NextUserId(users)
           db_user == [email |-> user.email,
                       password_hash |-> get_password_hash(user.password),
                       roles |-> IF RolesExist(user.roles) THEN ListSet(user.roles)
                                 ELSE {}]
       IN  IF EmailTaken(user.email)
           THEN /\ users' = users
                /\ last' = Response("create_user", user, 400, NoRes)
           ELSE /\ users' = Put(users, id, db_user)
                /\ last' = IF RolesExist(user.roles)
                           THEN Response("create_user", user, 200, [user_id |-> id])
                           ELSE Response("create_user", user, 400, NoRes)
    /\ bearer' = NoBearer
    /\ UNCHANGED <<student_profiles, ssg_profiles, departments, programs,
                   program_departments, roles, tokens,
                   inflight, events, attendances, now, ticks>>

\* PATCH /users/{user_id} (the name fields are not part of the model).
update_user(caller, user_id, user_update) ==
    /\ LET req == [caller |-> caller, user_id |-> user_id, update |-> user_update]
           reject(code) == /\ users' = users
                           /\ last' = Response("update_user", req, code, NoRes)
       IN  IF caller # user_id /\ ~has_required_roles(caller, {"admin"}) THEN reject(403)
           ELSE IF user_id \notin DOMAIN users THEN reject(404)
           ELSE IF /\ user_update.email # NoneStr
                   /\ users[user_id].email # user_update.email
                   /\ EmailTaken(user_update.email) THEN reject(400)
           ELSE /\ users' = IF user_update.email # NoneStr
                            THEN [users EXCEPT ![user_id].email = user_update.email]
                            ELSE users
                /\ last' = Response("update_user", req, 200, NoRes)
    /\ UNCHANGED <<student_profiles, ssg_profiles, departments, programs,
                   program_departments, roles, tokens,
                   inflight, events, attendances, now, ticks>>

\* DELETE /users/{user_id}: the user goes with its role assignments, its
\* profiles, the attendance rows of its student profile and the event
\* assignments of its SSG profile; rows it verified keep verified_by NULL.
delete_user(caller, user_id) ==
    /\ LET req == [caller |-> caller, user_id |-> user_id]
           reject(code) == /\ UNCHANGED <<users, student_profiles, ssg_profiles,
                                          events, attendances>>
                           /\ last' = Response("delete_user", req, code, NoRes)
           gone_students == {p.id : p \in {q \in student_profiles : q.user_id = user_id}}
           gone_ssg == {p.id : p \in {q \in ssg_profiles : q.user_id = user_id}}
           kept == {i \in DOMAIN attendances : attendances[i].student_id \notin gone_students}
       IN  IF ~has_required_roles(caller, {"admin"}) THEN reject(403)
           ELSE IF user_id \notin DOMAIN users THEN reject(404)
           ELSE /\ users' = [u \in DOMAIN users \ {user_id} |-> users[u]]
                /\ student_profiles' = {p \in student_profiles : p.user_id # user_id}
                /\ ssg_profiles' = {p \in ssg_profiles : p.user_id # user_id}
                /\ attendances' = [i \in kept |->
                                     IF attendances[i].verified_by = user_id
                                     THEN [attendances[i] EXCEPT !.verified_by = NULL]
                                     ELSE attendances[i]]
                /\ events' = [e \in DOMAIN events |->
                                 [events[e] EXCEPT !.ssg_members = @ \ gone_ssg]]
                /\ last' = Response("delete_user", req, 204, NoRes)
    /\ UNCHANGED <<departments, programs, program_departments, roles, tokens, inflight, now, ticks>>

\* PUT /users/{user_id}/roles: a role that is no row of the roles table
\* raises before the commit, and the session is closed without one.
update_user_roles(caller, user_id, role_names) ==
    /\ LET req == [caller |-> caller, user_id |-> user_id, roles |-> role_names]
           reject(code) == /\ users' = users
                           /\ last' = Response("update_user_roles", req, code, NoRes)
       IN  IF ~has_required_roles(caller, {"admin"}) THEN reject(403)
           ELSE IF user_id \notin DOMAIN users THEN reject(404)
           ELSE IF ~RolesExist(role_names) THEN reject(400)
           ELSE /\ users' = [users EXCEPT ![user_id].roles = ListSet(role_names)]
                /\ last' = Response("update_user_roles", req, 200, NoRes)
    /\ UNCHANGED <<student_profiles, ssg_profiles, departments, programs,
                   program_departments, roles, tokens,
                   inflight, events, attendances, now, ticks>>

\* POST /users/{user_id}/reset-password
reset_user_password(caller, user_id, password) ==
    /\ LET req == [caller |-> caller, user_id |-> user_id, password |-> password]
           reject(code) == /\ users' = users
                           /\ last' = Response("reset_user_password", req, code, NoRes)
       IN  IF caller # user_id /\ ~has_required_roles(caller, {"admin"}) THEN reject(403)
           ELSE IF user_id \notin DOMAIN users THEN reject(404)
           ELSE /\ users' = [users EXCEPT
                               ![user_id].password_hash = get_password_hash(password)]
                /\ last' = Response("reset_user_password", req, 204, NoRes)
    /\ UNCHANGED <<student_profiles, ssg_profiles, departments, programs,
                   program_departments, roles, tokens,
                   inflight, events, attendances, now, ticks>>

----------------------------------------------------------------------------
(* app/routers/users.py: student profiles; app/routers/programs.py *)

\* The primary key the student_profiles sequence hands out next.
NextProfileId(ps) ==
    IF ps = {} THEN 1
    ELSE 1 + (CHOOSE m \in {p.id : p \in ps} : \A q \in ps : q.id <= m)

\* The many-to-many check of the profile handlers: a row of
\* program_department_association for the program and the department.
association_exists(department_id, program_id) ==
    <<program_id, department_id>> \in program_departments

\* POST /users/student-profiles/
create_student_profile(caller, profile) ==
    /\ LET reject(code) == /\ student_profiles' = student_profiles
                           /\ last' = Response("create_student_profile",
                                               [caller |-> caller, profile |-> profile],
                                               code, NoRes)
       IN  IF ~has_required_roles(caller, {"admin", "ssg", "event-organizer"})
           THEN reject(403)
           ELSE IF profile.user_id \notin DOMAIN users THEN reject(404)
           ELSE IF StudentsByStudentId(profile.student_id) # {} THEN reject(400)
           ELSE IF profile.department_id \notin departments
                   \/ profile.program_id \notin programs THEN reject(400)
           ELSE IF ~association_exists(profile.department_id, profile.program_id)
                THEN reject(400)
           ELSE IF \E p \in student_profiles : p.user_id = profile.user_id
                THEN reject(500)
           ELSE /\ student_profiles' = student_profiles \cup
                      {[id |-> NextProfileId(student_profiles),
                        user_id |-> profile.user_id, student_id |-> profile.student_id,
                        department_id |-> profile.department_id,
                        program_id |-> profile.program_id]}
                /\ last' = Response("create_student_profile",
                                    [caller |-> caller, profile |-> profile], 200, NoRes)
    /\ UNCHANGED <<users, ssg_profiles, departments, programs, program_departments, roles,
                   tokens, inflight, events, attendances, now, ticks>>

\* PATCH /users/student-profiles/{profile_id}: when a department or a
\* program is given, the pair the profile would have is validated.
update_student_profile(caller, profile_id, profile_update) ==
    /\ LET req == [caller |-> caller, profile_id |-> profile_id, update |-> profile_update]
           reject(code) == /\ student_profiles' = student_profiles
                           /\ last' = Response("update_student_profile", req, code, NoRes)
           found == {p \in student_profiles : p.id = profile_id}
       IN  IF ~has_required_roles(caller, {"admin", "ssg", "event-organizer"})
           THEN reject(403)
           ELSE IF found = {} THEN reject(404)
           ELSE LET profile == CHOOSE p \in found : TRUE
                    department_id == IF profile_update.department_id # NULL
                                     THEN profile_update.department_id
                                     ELSE profile.department_id
                    program_id == IF profile_update.program_id # NULL
                                  THEN profile_update.program_id
                                  ELSE profile.program_id
                    given == \/ profile_update.department_id # NULL
                             \/ profile_update.program_id # NULL
                IN  IF /\ profile_update.student_id # NoneStr
                       /\ profile.student_id # profile_update.student_id
                       /\ StudentsByStudentId(profile_update.student_id) # {}
                    THEN reject(400)
                    ELSE IF given /\ (department_id \notin departments
                                      \/ program_id \notin programs) THEN reject(400)
                    ELSE IF given /\ ~association_exists(department_id, program_id)
                         THEN reject(400)
                    ELSE /\ student_profiles' = (student_profiles \ {profile}) \cup
                               {[profile EXCEPT
                                   !.student_id = IF profile_update.student_id # NoneStr
                                                  THEN profile_update.student_id ELSE @,
                                   !.department_id = department_id,
                                   !.program_id = program_id]}
                         /\ last' = Response("update_student_profile", req, 200, NoRes)
    /\ UNCHANGED <<users, ssg_profiles, departments, programs, program_departments, roles,
                   tokens, inflight, events, attendances, now, ticks>>

\* PATCH /programs/{program_id} (the name is not part of the model): a
\* provided department list, the empty one too, replaces the departments of
\* the program.  The endpoint asks for no token.
update_program(program_id, program_update) ==
    /\ LET req == [program_id |-> program_id, update |-> program_update]
           reject(code) == /\ program_departments' = program_departments
                           /\ last' = Response("update_program", req, code, NoRes)
       IN  IF program_id \notin programs THEN reject(404)
           ELSE IF IsNone(program_update.department_ids)
                THEN /\ program_departments' = program_departments
                     /\ last' = Response("update_program", req, 200, NoRes)
           ELSE LET department_ids == Some(program_update.department_ids)
                IN  IF department_ids # << >> /\ ~ListResolves(department_ids, departments)
                    THEN reject(404)
                    ELSE /\ program_departments' =
                               {pd \in program_departments : pd[1] # program_id}
                               \cup {<<program_id, d>> : d \in ListSet(department_ids)}
                         /\ last' = Response("update_program", req, 200, NoRes)
    /\ bearer' = NoBearer
    /\ UNCHANGED <<users, student_profiles, ssg_profiles, departments, programs, roles,
                   tokens, inflight, events, attendances, now, ticks>>

----------------------------------------------------------------------------
(* Requests and specifications *)

Callers == DOMAIN users
EventIds == 1 .. MaxEvents
StudentIdInputs == {"S1", "S2", "SX"}
ReasonInputs == {<<"sick">>}

\* An EventCreate body with valid datetimes and no memberships.
PlainEvent(status) ==
    [name |-> "Orientation", location |-> "Gym", start_datetime |-> 1, end_datetime |-> 2,
     status |-> status, department_ids |-> << >>, program_ids |-> << >>,
     ssg_member_ids |-> << >>]

\* A step A that keeps the tables and the clock within the model's bounds.
Bounded(A, maxRows) ==
    /\ A
    /\ bearer' = bearer
    /\ Cardinality(DOMAIN events') <= MaxEvents
    /\ Cardinality(DOMAIN attendances') <= maxRows
    /\ ticks' <= MaxTicks

(* Spec: check-in and check-out of one student at one event under a running
   clock. *)

ClockStudents == {"S1", "SX"}

Next ==
    \/ \E caller \in {1, 3} : Bounded(create_event(caller, PlainEvent("ongoing")), MaxRows)
    \/ \E d \in TickSteps : Bounded(Tick(d), MaxRows)
    \/ \E caller \in {1, 3}, sid \in ClockStudents :
          Bounded(record_face_scan_attendance(caller, 1, sid), MaxRows)
    \/ \E caller \in {1, 3}, sid \in ClockStudents :
          Bounded(record_manual_attendance(caller,
                     [event_id |-> 1, student_id |-> sid, notes |-> << >>]), MaxRows)
    \/ \E caller \in Callers, id \in 1 .. MaxRows :
          Bounded(record_time_out(caller, id), MaxRows)
    \/ \E caller \in {1, 3}, sid \in ClockStudents :
          Bounded(record_face_scan_timeout(caller, 1, sid), MaxRows)

Spec == Init /\ [][Next]_vars

(* SpecMarking: every attendance operation and the event status, the clock
   standing still. *)

MarkCallers == {1}
MarkStudents == {"S1", "SX"}
MarkRecords == [event_id : EventIds, student_id : MarkStudents, notes : {<< >>}]
BulkInputs == UNION {[1 .. n -> MarkRecords] : n \in 0 .. MaxBatch}

NextMarking ==
    \/ \E caller \in MarkCallers :
          Bounded(create_event(caller, PlainEvent("upcoming")), MaxMarkRows)
    \/ \E caller \in MarkCallers, e \in EventIds, st \in {"ongoing", "completed"} :
          Bounded(update_event_status(caller, e, st), MaxMarkRows)
    \/ \E caller \in MarkCallers, e \in EventIds, sid \in MarkStudents :
          Bounded(record_face_scan_attendance(caller, e, sid), MaxMarkRows)
    \/ \E caller \in MarkCallers, data \in MarkRecords :
          Bounded(record_manual_attendance(caller, data), MaxMarkRows)
    \/ \E caller \in MarkCallers, records \in BulkInputs :
          Bounded(record_bulk_attendance(caller, records), MaxMarkRows)
    \/ \E caller \in MarkCallers, e \in EventIds, sids \in SUBSET MarkStudents,
          reason \in ReasonInputs :
          Bounded(mark_excused_attendance(caller, e, sids, reason), MaxMarkRows)
    \/ \E caller \in MarkCallers, id \in 1 .. MaxMarkRows :
          Bounded(record_time_out(caller, id), MaxMarkRows)
    \/ \E caller \in MarkCallers, e \in EventIds, sid \in MarkStudents :
          Bounded(record_face_scan_timeout(caller, e, sid), MaxMarkRows)
    \/ \E caller \in Callers, e \in EventIds :
          Bounded(mark_absent_no_timeout(caller, e), MaxMarkRows)

SpecMarking == Init /\ [][NextMarking]_vars


(* SpecEventDates: creating and updating events over every ordering of the
   two datetimes. *)

Dates == 1 .. MaxDate

DatedEvent(start, end, department_ids) ==
    [name |-> "Orientation", location |-> "Gym", start_datetime |-> start,
     end_datetime |-> end, status |-> "upcoming", department_ids |-> department_ids,
     program_ids |-> << >>, ssg_member_ids |-> << >>]

DatedUpdate(start, end, department_ids) ==
    [name |-> NoneStr, location |-> NoneStr, start_datetime |-> start, end_datetime |-> end,
     status |-> NoneStr, department_ids |-> department_ids, program_ids |-> {},
     ssg_member_ids |-> {}]

NextEventDates ==
    \/ \E caller \in {2, 3}, start \in Dates, end \in Dates, deps \in {<< >>, <<9>>} :
          Bounded(create_event(caller, DatedEvent(start, end, deps)), 0)
    \/ \E caller \in {2, 3}, e \in EventIds, start \in Dates \cup {NULL},
          end \in Dates \cup {NULL}, deps \in {{}, {<<9>>}} :
          Bounded(update_event(caller, e, DatedUpdate(start, end, deps)), 0)

SpecEventDates == Init /\ [][NextEventDates]_vars

(* SpecEventMembers: creating and updating events over resolvable,
   unresolvable and repeated ids in the three membership lists. *)

IdListInputs == {<< >>, <<1>>, <<9>>, <<1, 1>>}

MemberEvent(department_ids, program_ids, ssg_member_ids) ==
    [name |-> "Orientation", location |-> "Gym", start_datetime |-> 1, end_datetime |-> 2,
     status |-> "upcoming", department_ids |-> department_ids,
     program_ids |-> program_ids, ssg_member_ids |-> ssg_member_ids]

MemberUpdate(department_ids, program_ids, ssg_member_ids) ==
    [name |-> NoneStr, location |-> NoneStr, start_datetime |-> NULL, end_datetime |-> NULL,
     status |-> NoneStr, department_ids |-> department_ids, program_ids |-> program_ids,
     ssg_member_ids |-> ssg_member_ids]

OptIdListInputs == {{}, {<<1>>}, {<<9>>}}

NextEventMembers ==
    \/ \E caller \in {2, 3}, deps \in IdListInputs, progs \in IdListInputs,
          ssgs \in IdListInputs :
          Bounded(create_event(caller, MemberEvent(deps, progs, ssgs)), 0)
    \/ \E caller \in {2}, e \in EventIds, deps \in OptIdListInputs,
          progs \in OptIdListInputs, ssgs \in OptIdListInputs :
          Bounded(update_event(caller, e, MemberUpdate(deps, progs, ssgs)), 0)

SpecEventMembers == Init /\ [][NextEventMembers]_vars


(* SpecEventDelete: events with memberships and attendance rows, and their
   deletion. *)

NextEventDelete ==
    \/ \E ids \in {<< >>, <<1>>} :
          Bounded(create_event(2, MemberEvent(ids, ids, ids)), MaxMarkRows)
    \/ \E e \in EventIds, sid \in MarkStudents :
          Bounded(record_manual_attendance(1,
                     [event_id |-> e, student_id |-> sid, notes |-> << >>]), MaxMarkRows)
    \/ \E caller \in {2, 3}, e \in EventIds \cup {9} :
          Bounded(delete_event(caller, e), MaxMarkRows)

SpecEventDelete == Init /\ [][NextEventDelete]_vars


(* SpecUsers: the users table under create, update, password
   reset and login, the roles table being fully or partly seeded. *)

InitUsers ==
    /\ InitTables
    /\ roles \in {RoleNames, RoleNames \ {"event-organizer"}}

EmailInputs == {"student@u.edu", "new@u.edu"}
PasswordInputs == {"Passw0rd1", "Passw0rd2"}
RoleListInputs == {<<"student">>, <<"student", "event-organizer">>}

UserCreateInputs ==
    [email : EmailInputs, password : {"Passw0rd1"}, roles : RoleListInputs]

UserCallers == {2, 3}
UserIds == {3, 4, 5}

\* A step A that keeps the users table and the issued tokens within the
\* model's bounds.
BoundedUsers(A) ==
    /\ A
    /\ Cardinality(DOMAIN users') <= MaxUsers
    /\ Cardinality(tokens') <= MaxTokens
    /\ ticks' <= MaxTicks

NextUsers ==
    \/ \E user \in UserCreateInputs : BoundedUsers(create_user(user))
    \/ \E email \in EmailInputs, password \in PasswordInputs :
          BoundedUsers(login_with_email(email, password))
    \/ \E caller \in UserCallers, id \in UserIds, email \in EmailInputs \cup {NoneStr} :
          BoundedUsers(update_user(caller, id, [email |-> email]) /\ bearer' = bearer)
    \/ \E caller \in UserCallers, id \in UserIds, password \in PasswordInputs :
          BoundedUsers(reset_user_password(caller, id, password) /\ bearer' = bearer)

SpecUsers == InitUsers /\ [][NextUsers]_vars


(* SpecRace: two worker threads serving check-in requests at once.  The
   check-in endpoints are plain `def` handlers, which the server runs in a
   thread pool, each with a database session of its own; a request is a
   query step (role check, student lookup, existence query against the
   committed rows) and a commit step (INSERT and COMMIT). *)

\* Variant of CommitAccepts for a table with a unique constraint over
\* (student_id, event_id).
CommitAcceptsUnique(student, event_id) == RowsOfPair(attendances, student, event_id) = {}

\* What the attendances table asks of an inserted row beyond its foreign
\* keys: nothing, the table has no constraint over (student_id, event_id).
CommitAccepts(student, event_id) == TRUE

CheckInOps == {"record_manual_attendance", "record_face_scan_attendance"}

\* The duplicate test of the handler op on the row `.first()` returned.
CheckInRefuses(op, existing) ==
    IF op = "record_manual_attendance" THEN ManualExists(existing)
    ELSE WithinCooldown(existing)

CheckInReq(op, caller, event_id, student_id) ==
    IF op = "record_manual_attendance"
    THEN ManualReq(caller, [event_id |-> event_id, student_id |-> student_id, notes |-> << >>])
    ELSE FaceScanReq(caller, event_id, student_id)

\* The handler op on worker r, from its entry to the result of its
\* existence query: a raise answers the request at once, otherwise the
\* worker holds the request with the rows of the pair the query saw.
CheckInQuery(r, op, caller, event_id, student_id) ==
    /\ inflight[r].pc = "idle"
    /\ LET req == CheckInReq(op, caller, event_id, student_id)
           reject(code) == /\ inflight' = inflight
                           /\ last' = Response(op, req, code, [attendance_id |-> NULL])
       IN  IF "ssg" \notin users[caller].roles THEN reject(403)
           ELSE IF StudentsByStudentId(student_id) = {} THEN reject(404)
           ELSE LET student == StudentOf(student_id).id
                    rows == RowsOfPair(attendances, student, event_id)
                IN  \E existing \in FirstOf(rows) :
                       IF CheckInRefuses(op, existing) THEN reject(400)
                       ELSE /\ inflight' = [inflight EXCEPT ![r] =
                                   [pc |-> "queried", op |-> op, req |-> req,
                                    caller |-> caller, event_id |-> event_id,
                                    student |-> student, before |-> rows]]
                            /\ last' = last
    /\ UNCHANGED <<users, student_profiles, ssg_profiles, departments, programs,
                   program_departments, roles,
                   tokens, events, attendances, now, ticks>>

\* db.add, db.commit and the response of the request worker r holds.
CheckInCommit(r) ==
    /\ inflight[r].pc = "queried"
    /\ LET q == inflight[r]
           id == NextAttendanceId(attendances)
           ok == EventFkHolds(q.event_id) /\ CommitAccepts(q.student, q.event_id)
           method == IF q.op = "record_manual_attendance" THEN "manual" ELSE "face_scan"
       IN  /\ attendances' = IF ok
                             THEN Put(attendances, id,
                                      NewAttendance(q.student, q.event_id, method,
                                                    "present", q.caller, << >>))
                             ELSE attendances
           /\ inflight' = [inflight EXCEPT ![r] =
                  [pc |-> "done", op |-> q.op, req |-> q.req, caller |-> q.caller,
                   event_id |-> q.event_id, student |-> q.student, before |-> q.before,
                   code |-> IF ok THEN 200 ELSE 500,
                   attendance_id |-> IF ok THEN id ELSE NULL]]
           /\ last' = Response(q.op, q.req, IF ok THEN 200 ELSE 500,
                               [attendance_id |-> IF ok THEN id ELSE NULL])
    /\ UNCHANGED <<users, student_profiles, ssg_profiles, departments, programs,
                   program_departments, roles,
                   tokens, events, now, ticks>>

\* Worker r has sent its response and is free for the next request.
WorkerRelease(r) ==
    /\ inflight[r].pc = "done"
    /\ inflight' = [inflight EXCEPT ![r] = IdleSlot]
    /\ UNCHANGED <<users, student_profiles, ssg_profiles, departments, programs,
                   program_departments, roles,
                   tokens, events, attendances, now, ticks, last>>

RaceCallers == {1, 3}
RaceStudentIds == {"S1", "S2"}

BoundedRace(A) ==
    /\ A
    /\ bearer' = bearer
    /\ Cardinality(DOMAIN events') <= 1
    /\ Cardinality(DOMAIN attendances') <= MaxRows
    /\ ticks' <= MaxTicks

NextRace ==
    \/ BoundedRace(create_event(1, PlainEvent("ongoing")))
    \/ BoundedRace(Tick(COOLDOWN_SECONDS))
    \/ \E r \in Slots, op \in CheckInOps, caller \in RaceCallers,
          student_id \in RaceStudentIds :
          BoundedRace(CheckInQuery(r, op, caller, 1, student_id))
    \/ \E r \in Slots : BoundedRace(CheckInCommit(r))
    \/ \E r \in Slots : BoundedRace(WorkerRelease(r))

SpecRace == Init /\ [][NextRace]_vars

(* SpecEventUpdate: one event with memberships under updates of its fields,
   datetimes and membership lists, valid and invalid. *)

UpdateInputs ==
    {[name |-> f[1], location |-> f[2], status |-> f[3],
      start_datetime |-> start, end_datetime |-> end,
      department_ids |-> deps, program_ids |-> progs, ssg_member_ids |-> ssgs] :
        f \in {<<NoneStr, NoneStr, NoneStr>>, <<"Assembly", "Hall", "ongoing">>},
        start \in {NULL, MaxDate}, end \in {NULL},
        deps \in OptIdListInputs, progs \in OptIdListInputs, ssgs \in OptIdListInputs}

NextEventUpdate ==
    \/ \E ids \in {<< >>, <<1>>} :
          BoundedRace(create_event(2, MemberEvent(ids, ids, ids)))
    \/ \E caller \in {2, 3}, e \in EventIds, upd \in UpdateInputs :
          BoundedRace(update_event(caller, e, upd))

SpecEventUpdate == Init /\ [][NextEventUpdate]_vars


(* SpecRoles: every operation that writes attendance rows, called by the
   SSG user, the admin and the student. *)

NextRoles ==
    \/ Bounded(create_event(1, PlainEvent("completed")), MaxMarkRows)
    \/ \E caller \in Callers :
          Bounded(record_face_scan_attendance(caller, 1, "S1"), MaxMarkRows)
    \/ \E caller \in Callers :
          Bounded(record_manual_attendance(caller,
                     [event_id |-> 1, student_id |-> "S1", notes |-> << >>]), MaxMarkRows)
    \/ \E caller \in Callers, sid \in {"S1", "S2"} :
          Bounded(record_bulk_attendance(caller,
                     <<[event_id |-> 1, student_id |-> sid, notes |-> << >>]>>), MaxMarkRows)
    \/ \E caller \in Callers, reason \in ReasonInputs :
          Bounded(mark_excused_attendance(caller, 1, {"S1"}, reason), MaxMarkRows)
    \/ \E caller \in Callers, id \in 1 .. MaxMarkRows :
          Bounded(record_time_out(caller, id), MaxMarkRows)
    \/ \E caller \in Callers :
          Bounded(record_face_scan_timeout(caller, 1, "S1"), MaxMarkRows)
    \/ \E caller \in Callers : Bounded(mark_absent_no_timeout(caller, 1), MaxMarkRows)

SpecRoles == Init /\ [][NextRoles]_vars

(* SpecTimestamps: the operations of SpecRoles under a running clock. *)

NextTimestamps ==
    \/ NextRoles
    \/ Bounded(Tick(1), MaxMarkRows)

SpecTimestamps == Init /\ [][NextTimestamps]_vars

(* SpecIdentity: tokens in use while users change their email and new
   users are created. *)

NextIdentity ==
    \/ \E email \in EmailInputs : BoundedUsers(login_with_email(email, "Passw0rd1"))
    \/ \E email \in EmailInputs :
          BoundedUsers(create_user([email |-> email, password |-> "Passw0rd1",
                                    roles |-> <<"student">>]))
    \/ \E token \in tokens, id \in UserIds, email \in EmailInputs \cup {"old@u.edu"} :
          BoundedUsers(Authenticated(token)
                       /\ update_user(get_current_user(token), id, [email |-> email]))
    \/ \E token \in tokens : BoundedUsers(Unauthenticated(token))

SpecIdentity == Init /\ [][NextIdentity]_vars

(* SpecPrograms: student profiles created and updated while the department
   lists of their program are replaced. *)

ProfileCreateInputs ==
    [user_id : {1, 3}, student_id : {"S1", "S3"}, department_id : {1, 9},
     program_id : {1, 9}]

ProfileUpdateInputs ==
    [student_id : {NoneStr, "S2", "S4"}, department_id : {NULL, 1, 9},
     program_id : {NULL, 1}]

NextPrograms ==
    \/ \E caller \in {2, 3}, profile \in ProfileCreateInputs :
          Bounded(create_student_profile(caller, profile), 0)
    \/ \E caller \in {2, 3}, id \in {1, 3, 9}, profile_update \in ProfileUpdateInputs :
          Bounded(update_student_profile(caller, id, profile_update), 0)
    \/ \E id \in {1, 9}, ids \in OptIdListInputs \cup {{<< >>}} :
          update_program(id, [department_ids |-> ids])

SpecPrograms == Init /\ [][NextPrograms]_vars

(* SpecOverview: the students overview read after check-ins, single and in
   batches, and excuse marking. *)

NextOverview ==
    \/ Bounded(create_event(1, PlainEvent("ongoing")), MaxMarkRows)
    \/ \E records \in BulkInputs : Bounded(record_bulk_attendance(1, records), MaxMarkRows)
    \/ \E data \in MarkRecords : Bounded(record_manual_attendance(1, data), MaxMarkRows)
    \/ \E e \in EventIds :
          Bounded(mark_excused_attendance(1, e, {"S1"}, <<"sick">>), MaxMarkRows)
    \/ \E caller \in {1, 3} :
          Bounded(get_students_attendance_overview(caller), MaxMarkRows)

SpecOverview == Init /\ [][NextOverview]_vars

(* SpecAuth: protected endpoints reached with issued, expired, forged and
   missing tokens, under a running clock and changes to the users the
   tokens name. *)

\* Clock steps that reach both sides of the expiry of a token.
TokenTickSteps == {1, ACCESS_TOKEN_EXPIRE_MINUTES * SECONDS_PER_MINUTE - 1}

\* Authorization headers no login has issued: none, a string that is no
\* JWT, a JWT signed with another key, a JWT without sub, and a JWT for an
\* email no user has.
BadBearers ==
    {[kind |-> "missing"],
     [kind |-> "malformed"],
     [kind |-> "jwt", key |-> "another-key", sub |-> "admin@u.edu", roles |-> {"admin"},
      user_id |-> 2, exp |-> ACCESS_TOKEN_EXPIRE_MINUTES * SECONDS_PER_MINUTE],
     [kind |-> "jwt", key |-> SECRET_KEY, sub |-> NoneStr, roles |-> {},
      user_id |-> NULL, exp |-> ACCESS_TOKEN_EXPIRE_MINUTES * SECONDS_PER_MINUTE],
     [kind |-> "jwt", key |-> SECRET_KEY, sub |-> "ghost@u.edu", roles |-> {},
      user_id |-> NULL, exp |-> ACCESS_TOKEN_EXPIRE_MINUTES * SECONDS_PER_MINUTE]}

BearerInputs == tokens \cup BadBearers

AuthEmails == {"admin@u.edu", "student@u.edu"}

\* A step A that keeps the tables, the issued tokens and the clock within
\* the model's bounds.
BoundedAuth(A) ==
    /\ A
    /\ Cardinality(tokens') <= MaxTokens
    /\ Cardinality(DOMAIN users') <= MaxUsers
    /\ Cardinality(DOMAIN events') <= 1
    /\ Cardinality(DOMAIN attendances') <= 1
    /\ ticks' <= MaxTicks

NextAuth ==
    \/ \E email \in AuthEmails : BoundedAuth(login_with_email(email, "Passw0rd1"))
    \/ \E d \in TokenTickSteps : BoundedAuth(Tick(d) /\ bearer' = bearer)
    \/ \E token \in BearerInputs : BoundedAuth(Unauthenticated(token))
    \/ \E token \in BearerInputs :
          BoundedAuth(Authenticated(token)
                      /\ record_manual_attendance(get_current_user(token),
                            [event_id |-> 1, student_id |-> "S1", notes |-> << >>]))
    \/ \E token \in BearerInputs :
          BoundedAuth(Authenticated(token)
                      /\ create_event(get_current_user(token), PlainEvent("upcoming")))
    \/ \E token \in BearerInputs :
          BoundedAuth(Authenticated(token)
                      /\ update_user(get_current_user(token), 3, [email |-> "new@u.edu"]))
    \/ \E token \in BearerInputs :
          BoundedAuth(Authenticated(token)
                      /\ reset_user_password(get_current_user(token), 3, "Passw0rd2"))
    \/ \E token \in BearerInputs, role_names \in {<<"ssg">>, <<"student">>} :
          BoundedAuth(Authenticated(token)
                      /\ update_user_roles(get_current_user(token), 3, role_names))
    \/ \E token \in BearerInputs :
          BoundedAuth(Authenticated(token) /\ delete_user(get_current_user(token), 3))

SpecAuth == Init /\ [][NextAuth]_vars


----------------------------------------------------------------------------
(* Properties *)

IsCheckOut(l) == l.op \in {"record_time_out", "record_face_scan_timeout"}

\* The request in l, handled in a state with events table ev, asks for an
\* event whose start would not precede its end.
WouldMisorder(l, ev) ==
    \/ /\ l.op = "create_event"
       /\ l.req.event.start_datetime >= l.req.event.end_datetime
    \/ /\ l.op = "update_event"
       /\ l.req.event_id \in DOMAIN ev
       /\ LET upd == l.req.update
              old == ev[l.req.event_id]
              start == IF upd.start_datetime = NULL THEN old.start_datetime
                       ELSE upd.start_datetime
              end == IF upd.end_datetime = NULL THEN old.end_datetime
                     ELSE upd.end_datetime
          IN  start >= end

\* C1: after every create_event and update_event step (partial updates
\* included) every stored event has end_datetime > start_datetime, and a
\* request that would make start >= end is rejected and leaves the events
\* table as it was.
C1_EventOrder ==
    [][ /\ \A e \in DOMAIN events' : events'[e].end_datetime > events'[e].start_datetime
        /\ WouldMisorder(last', events) =>
              /\ events' = events
              /\ last'.code \notin {200, 201} ]_vars

\* C1 witness: an update that supplied only start_datetime was rejected for
\* the ordering, an event being stored.
C1_Witness ==
    /\ last.op = "update_event"
    /\ last.code = 400
    /\ last.req.update.start_datetime # NULL
    /\ last.req.update.end_datetime = NULL
    /\ last.req.event_id \in DOMAIN events

\* C2: once a row has time_out set, no step changes that time_out; a
\* record_time_out on that row is rejected and changes nothing, with 400
\* when the caller passes the role check; and a face-scan check-out never
\* closes that row again.
C2_CheckOutOnce ==
    [][ \A i \in DOMAIN attendances :
           attendances[i].time_out # NULL =>
              /\ i \in DOMAIN attendances'
              /\ attendances'[i].time_out = attendances[i].time_out
              /\ (last'.op = "record_time_out" /\ last'.req.attendance_id = i) =>
                    /\ attendances' = attendances
                    /\ last'.code \in {400, 403}
                    /\ HasAnyRole(last'.req.caller, {"ssg", "admin"}) => last'.code = 400
              /\ (last'.op = "record_face_scan_timeout" /\ last'.code = 200) =>
                    last'.res.attendance_id # i ]_vars

\* C2 witness: a second check-out of a closed row was answered 400.
C2_Witness ==
    /\ last.op = "record_time_out"
    /\ last.code = 400
    /\ attendances[last.req.attendance_id].time_out # NULL

\* C3 (as claimed): any two rows created by face-scan check-in for the same
\* (student, event) pair are at least 300 seconds apart.
C3_CooldownBetweenScans ==
    \A i \in DOMAIN attendances, j \in DOMAIN attendances :
       ( /\ i # j
         /\ attendances[i].method = "face_scan"
         /\ attendances[j].method = "face_scan"
         /\ attendances[i].student_id = attendances[j].student_id
         /\ attendances[i].event_id = attendances[j].event_id
         /\ attendances[i].time_in <= attendances[j].time_in )
       => attendances[j].time_in - attendances[i].time_in >= COOLDOWN_SECONDS

\* C4 (as claimed): every (student, event) pair has at most one row with
\* time_out null.
C4_OneActiveRowPerPair ==
    \A i \in DOMAIN attendances, j \in DOMAIN attendances :
       ( /\ attendances[i].student_id = attendances[j].student_id
         /\ attendances[i].event_id = attendances[j].event_id
         /\ attendances[i].time_out = NULL
         /\ attendances[j].time_out = NULL )
       => i = j

\* C5 (as claimed): a bulk request by an SSG caller is answered 200 with one
\* result per input item, in input order, each recorded, exists or
\* not_found, and every item reported recorded has a committed row.
C5_BulkNeverFailsWhole ==
    (last.op = "record_bulk_attendance" /\ "ssg" \in users[last.req.caller].roles) =>
       /\ last.code = 200
       /\ Len(last.res.results) = Len(last.req.records)
       /\ \A i \in DOMAIN last.req.records :
             /\ last.res.results[i].student_id = last.req.records[i].student_id
             /\ last.res.results[i].status \in {"recorded", "exists", "not_found"}
             /\ last.res.results[i].status = "recorded" =>
                   \E r \in DOMAIN attendances :
                      /\ attendances[r].event_id = last.req.records[i].event_id
                      /\ \E p \in student_profiles :
                            /\ p.student_id = last.req.records[i].student_id
                            /\ attendances[r].student_id = p.id

\* A row the absentee sweep of event_id is meant to touch.
SweepCandidate(row, event_id) ==
    /\ row.event_id = event_id
    /\ row.time_in # NULL
    /\ row.time_out = NULL
    /\ row.status = "present"

\* C6: a sweep step for event e leaves the events table and the set of rows
\* as they were; a row that is not (of e, time_in set, time_out null, status
\* present) keeps every field; a row that is keeps every field but status
\* and notes, and its status stays present or becomes absent.
C6_SweepFrame ==
    [][ last'.op = "mark_absent_no_timeout" =>
           /\ events' = events
           /\ DOMAIN attendances' = DOMAIN attendances
           /\ \A i \in DOMAIN attendances :
                 IF SweepCandidate(attendances[i], last'.req.event_id)
                 THEN /\ attendances'[i].status \in {"present", "absent"}
                      /\ [attendances'[i] EXCEPT !.status = "x", !.notes = << >>]
                            = [attendances[i] EXCEPT !.status = "x", !.notes = << >>]
                 ELSE attendances'[i] = attendances[i] ]_vars

\* C6 witness: a sweep flipped one row to absent while an excused row of the
\* same event, still open, stayed excused.
C6_Witness ==
    /\ last.op = "mark_absent_no_timeout"
    /\ last.code = 200
    /\ last.res.updated_count = 1
    /\ \E i \in DOMAIN attendances :
          /\ attendances[i].event_id = last.req.event_id
          /\ attendances[i].status = "excused"
          /\ attendances[i].time_out = NULL

\* C7: a sweep of an event that does not exist or whose status is not
\* completed is refused and changes no row; and whenever a row's status
\* becomes absent, the step is an accepted sweep of the row's event and that
\* event's status is completed (no row is created absent).
C7_SweepOnlyWhenCompleted ==
    [][ /\ ( /\ last'.op = "mark_absent_no_timeout"
             /\ \/ last'.req.event_id \notin DOMAIN events
                \/ events[last'.req.event_id].status # "completed" )
           => /\ attendances' = attendances
              /\ last'.code \in {400, 403, 404}
        /\ \A i \in DOMAIN attendances' :
              ( /\ attendances'[i].status = "absent"
                /\ i \in DOMAIN attendances => attendances[i].status # "absent" )
              => /\ i \in DOMAIN attendances
                 /\ last'.op = "mark_absent_no_timeout"
                 /\ last'.code = 200
                 /\ last'.req.event_id = attendances[i].event_id
                 /\ attendances[i].event_id \in DOMAIN events
                 /\ events[attendances[i].event_id].status = "completed" ]_vars

\* C7 witness: a sweep was refused with 400 for an event that has an open
\* present row.
C7_Witness ==
    /\ last.op = "mark_absent_no_timeout"
    /\ last.code = 400
    /\ \E i \in DOMAIN attendances :
          SweepCandidate(attendances[i], last.req.event_id)

\* An id list of the request names an entity that is not in its table.
HasUnresolvableId(ev) ==
    \/ ListSet(ev.department_ids) \ departments # {}
    \/ ListSet(ev.program_ids) \ programs # {}
    \/ ListSet(ev.ssg_member_ids) \ {p.user_id : p \in ssg_profiles} # {}

\* C8 (as claimed): a create_event whose department, program or SSG-member
\* ids do not all resolve commits nothing: it is never answered 201.
C8_CreateAllOrNothing ==
    (last.op = "create_event" /\ HasUnresolvableId(last.req.event)) =>
       /\ last.code # 201
       /\ last.res.event_id = NULL

\* The rows of att whose pair is that of the manual request data.
RowsOfRequest(att, data) ==
    {i \in DOMAIN att :
        /\ att[i].event_id = data.event_id
        /\ \E p \in student_profiles :
              p.student_id = data.student_id /\ att[i].student_id = p.id}

\* C9: a manual check-in step answered 200 found no row for the pair and
\* adds exactly one row (present, manual, verifier = caller, time_out null);
\* one that finds a row for the pair changes nothing and, the caller being
\* SSG, is answered 400; any other answer changes nothing; so no pair ever
\* has two rows created by manual check-in.
C9_ManualCheckIn ==
    [][ last'.op = "record_manual_attendance" =>
           LET data == last'.req.data
               id == last'.res.attendance_id
           IN  /\ last'.code # 200 => attendances' = attendances
               /\ RowsOfRequest(attendances, data) # {} =>
                     /\ last'.code # 200
                     /\ "ssg" \in users[last'.req.caller].roles => last'.code = 400
               /\ last'.code = 200 =>
                     /\ id \notin DOMAIN attendances
                     /\ DOMAIN attendances' = DOMAIN attendances \cup {id}
                     /\ \A i \in DOMAIN attendances : attendances'[i] = attendances[i]
                     /\ RowsOfRequest(attendances', data) = {id}
                     /\ attendances'[id].status = "present"
                     /\ attendances'[id].method = "manual"
                     /\ attendances'[id].verified_by = last'.req.caller
                     /\ attendances'[id].time_out = NULL
               /\ \A i \in DOMAIN attendances', j \in DOMAIN attendances' :
                     ( /\ attendances'[i].method = "manual"
                       /\ attendances'[j].method = "manual"
                       /\ attendances'[i].student_id = attendances'[j].student_id
                       /\ attendances'[i].event_id = attendances'[j].event_id )
                     => i = j ]_vars

\* C9 witness: a manual check-in by an SSG caller was answered 400 because
\* the pair already had a row.
C9_Witness ==
    /\ last.op = "record_manual_attendance"
    /\ last.code = 400
    /\ RowsOfRequest(attendances, last.req.data) # {}

C15_ExcuseUpsert ==
    [][ ( /\ last'.op = "mark_excused_attendance"
          /\ HasAnyRole(last'.req.caller, {"ssg", "admin"})
          /\ last'.req.event_id \in DOMAIN events ) =>
           LET e == last'.req.event_id
               r == last'.req.reason
               known == ExcuseStudents(last'.req.student_ids)
               marked(row) == row.status = "excused" /\ row.notes = r
           IN  /\ last'.code = 200
               /\ \A st \in known :
                     LET before == RowsOfPair(attendances, st, e)
                         after == RowsOfPair(attendances', st, e)
                     IN  IF before # {}
                         THEN /\ after = before
                              /\ \E i \in before : marked(attendances'[i])
                              /\ \A i \in before :
                                    \/ attendances'[i] = attendances[i]
                                    \/ attendances'[i] =
                                          [attendances[i] EXCEPT !.status = "excused",
                                                                 !.notes = r]
                         ELSE /\ Cardinality(after) = 1
                              /\ \A i \in after : marked(attendances'[i])
               /\ \A i \in DOMAIN attendances' :
                     ~(attendances'[i].student_id \in known /\ attendances'[i].event_id = e)
                        => (i \in DOMAIN attendances /\ attendances'[i] = attendances[i])
               /\ DOMAIN attendances \subseteq DOMAIN attendances' ]_vars

\* C15 witness: an excuse request naming a known and an unknown student was
\* accepted, and a row made by face scan for that event is now excused with
\* the reason as notes.
C15_Witness ==
    /\ last.op = "mark_excused_attendance"
    /\ last.code = 200
    /\ last.req.student_ids = {"S1", "SX"}
    /\ \E i \in DOMAIN attendances :
          /\ attendances[i].event_id = last.req.event_id
          /\ attendances[i].method = "face_scan"
          /\ attendances[i].status = "excused"
          /\ attendances[i].notes = last.req.reason

\* C16 (as claimed): an event handler answers 403 to a caller without an
\* allowed role, 400 to a bad datetime ordering, 404 to a missing event, and
\* never 500 (the model has no unexpected or database error in these
\* handlers).
C16_EventErrorCodes ==
    [][ last'.op \in {"create_event", "update_event", "update_event_status"} =>
           LET allowed == HasAnyRole(last'.req.caller, {"ssg", "admin", "event-organizer"})
           IN  /\ ~allowed => last'.code = 403
               /\ (allowed /\ WouldMisorder(last', events)) => last'.code = 400
               /\ ( /\ allowed
                     /\ last'.op \in {"update_event", "update_event_status"}
                     /\ last'.req.event_id \notin DOMAIN events ) => last'.code = 404
               /\ last'.code # 500 ]_vars

\* C18 (as claimed): after an accepted create_event the three stored
\* membership sets of the new event are the three supplied lists (SSG
\* members as the profiles of the supplied ids); after an accepted
\* update_event each supplied list is the stored set and each list not
\* supplied is stored as before.
C18_MembershipReplaced ==
    [][ /\ (last'.op = "create_event" /\ last'.code = 201) =>
              LET ev == last'.req.event
                  row == events'[last'.res.event_id]
              IN  /\ row.departments = ListSet(ev.department_ids)
                  /\ row.programs = ListSet(ev.program_ids)
                  /\ row.ssg_members = SsgProfilesOf(ev.ssg_member_ids)
        /\ (last'.op = "update_event" /\ last'.code = 200) =>
              LET upd == last'.req.update
                  old == events[last'.req.event_id]
                  row == events'[last'.req.event_id]
              IN  /\ row.departments = IF IsNone(upd.department_ids) THEN old.departments
                                       ELSE ListSet(Some(upd.department_ids))
                  /\ row.programs = IF IsNone(upd.program_ids) THEN old.programs
                                    ELSE ListSet(Some(upd.program_ids))
                  /\ row.ssg_members = IF IsNone(upd.ssg_member_ids) THEN old.ssg_members
                                       ELSE SsgProfilesOf(Some(upd.ssg_member_ids)) ]_vars

\* C19 (as claimed): after an accepted bulk request no (student, event) pair
\* named by an item of a known student has gained more than one row, and a
\* pair that had a row has gained none.
C19_BulkOneRowPerPair ==
    [][ (last'.op = "record_bulk_attendance" /\ last'.code = 200) =>
           \A i \in DOMAIN last'.req.records :
              LET rec == last'.req.records[i]
              IN  \A p \in StudentsByStudentId(rec.student_id) :
                     LET before == RowsOfPair(attendances, p.id, rec.event_id)
                         after == RowsOfPair(attendances', p.id, rec.event_id)
                     IN  /\ Cardinality(after) <= Cardinality(before) + 1
                         /\ before # {} => after = before ]_vars

\* C12: a login step is answered 200 with a token for the given email
\* exactly when a stored user has that email and the hash of the given
\* password is that user's stored hash; otherwise it is answered 401, no
\* token is issued; and after an accepted password reset the stored hash is
\* that of the new password and of no other.
C12_LoginIffPasswordMatches ==
    [][ /\ last'.op = "login_with_email" =>
              LET req == last'.req
                  matches == \E u \in DOMAIN users :
                                /\ users[u].email = req.email
                                /\ users[u].password_hash = get_password_hash(req.password)
              IN  IF matches
                  THEN /\ last'.code = 200
                       /\ last'.res.access_token \in tokens'
                       /\ last'.res.access_token.sub = req.email
                       /\ users[last'.res.user_id].email = req.email
                  ELSE /\ last'.code = 401
                       /\ last'.res = NoRes
                       /\ tokens' = tokens
        /\ (last'.op = "reset_user_password" /\ last'.code = 204) =>
              \A p \in PasswordInputs :
                 (users'[last'.req.user_id].password_hash = get_password_hash(p))
                    <=> (p = last'.req.password) ]_vars

\* C12 witness: after a reset to another password, a login with the first
\* password of an existing user was answered 401.
C12_Witness ==
    /\ last.op = "login_with_email"
    /\ last.code = 401
    /\ last.req.password = "Passw0rd1"
    /\ \E u \in DOMAIN users :
          /\ users[u].email = last.req.email
          /\ users[u].password_hash = get_password_hash("Passw0rd2")

\* C13: after every step no two stored users share an email; a create_user
\* whose email is taken, and an update_user to an email another user has,
\* is rejected and leaves the users table as it was.
C13_EmailUnique ==
    [][ /\ \A u \in DOMAIN users', v \in DOMAIN users' :
              u # v => users'[u].email # users'[v].email
        /\ ( /\ last'.op = "create_user"
             /\ \E u \in DOMAIN users : users[u].email = last'.req.email ) =>
              (users' = users /\ last'.code = 400)
        /\ ( /\ last'.op = "update_user"
             /\ \E u \in DOMAIN users \ {last'.req.user_id} :
                   users[u].email = last'.req.update.email ) =>
              (users' = users /\ last'.code \in {400, 403, 404}) ]_vars

\* C13 witness: an email change to the email of another user was answered
\* 400, and a user created by request is stored.
C13_Witness ==
    /\ last.op = "update_user"
    /\ last.code = 400
    /\ last.req.user_id \in DOMAIN users
    /\ \E u \in DOMAIN users \ {last.req.user_id} : users[u].email = last.req.update.email
    /\ Cardinality(DOMAIN users) > 3

\* C14 (as claimed): a create_user naming a role that is no row of the roles
\* table is rejected and leaves the users table as it was.
C14_CreateUserAllOrNothing ==
    [][ (last'.op = "create_user" /\ ~(ListSet(last'.req.roles) \subseteq roles)) =>
           (users' = users /\ last'.code # 200) ]_vars

\* C11 (as claimed): a request to a protected endpoint whose token is
\* missing, malformed, forged, expired, without subject or names no stored
\* user is answered 401; a request with a token of a user who holds none of
\* the roles the endpoint asks for (or, on the self-or-admin endpoints, who
\* is neither the target user nor an admin) is answered 403; in both cases
\* every stored table is left as it was.
C11_ProtectedEndpoints ==
    [][ (bearer' # NoBearer /\ last'.op # "none") =>
           LET user == get_current_user(bearer')
               op == last'.op
               lacksRole ==
                  \/ /\ op = "record_manual_attendance"
                     /\ users[user].roles \cap {"ssg"} = {}
                  \/ /\ op = "create_event"
                     /\ users[user].roles \cap {"ssg", "admin", "event-organizer"} = {}
                  \/ /\ op \in {"delete_user", "update_user_roles"}
                     /\ "admin" \notin users[user].roles
                  \/ /\ op \in {"update_user", "reset_user_password"}
                     /\ user # last'.req.user_id
                     /\ "admin" \notin users[user].roles
           IN  IF user = NULL
               THEN last'.code = 401 /\ UNCHANGED stored
               ELSE lacksRole => (last'.code = 403 /\ UNCHANGED stored) ]_vars

C20_CheckInRace ==
    [][ \A r \in Slots : \A s \in Slots \ {r} :
           ( /\ inflight[r].pc = "queried"
             /\ inflight'[r].pc = "done"
             /\ EventFkHolds(inflight[r].event_id) ) =>
              /\ ( /\ inflight[s].pc = "queried"
                   /\ inflight[s].student = inflight[r].student
                   /\ inflight[s].event_id = inflight[r].event_id ) =>
                    /\ inflight'[r].code = 200
                    /\ inflight'[r].attendance_id \in DOMAIN attendances' \ DOMAIN attendances
                    /\ inflight'[s] = inflight[s]
              /\ ( /\ inflight[s].pc = "done"
                   /\ inflight[s].code = 200
                   /\ inflight[s].student = inflight[r].student
                   /\ inflight[s].event_id = inflight[r].event_id
                   /\ inflight[s].attendance_id \notin inflight[r].before ) =>
                    /\ inflight'[r].code = 200
                    /\ last'.code = 200
                    /\ inflight'[r].attendance_id # inflight[s].attendance_id
                    /\ {inflight'[r].attendance_id, inflight[s].attendance_id}
                          \subseteq RowsOfPair(attendances', inflight[r].student,
                                               inflight[r].event_id) ]_vars

\* C20 witness: two manual check-ins of one pair, each queried before the
\* other committed, were both answered 200 and the pair has two rows.
C20_Witness ==
    /\ \A r \in Slots :
          /\ inflight[r].pc = "done"
          /\ inflight[r].op = "record_manual_attendance"
          /\ inflight[r].code = 200
    /\ inflight[1].student = inflight[2].student
    /\ inflight[1].event_id = inflight[2].event_id
    /\ inflight[1].attendance_id \notin inflight[2].before
    /\ inflight[2].attendance_id \notin inflight[1].before
    /\ Cardinality(RowsOfPair(attendances, inflight[1].student, inflight[1].event_id)) = 2

\* C21 (as claimed): delete_event of a stored event by a caller holding the
\* admin or the event-organizer role succeeds; after it the event row with
\* its department, program and SSG memberships and every attendance row of
\* the event are gone, while the rows and memberships of every other event,
\* the attendance rows of other events and the departments, programs and
\* SSG profiles themselves are unchanged.
C21_DeleteEventRemoves ==
    [][ ( /\ last'.op = "delete_event"
          /\ HasAnyRole(last'.req.caller, {"admin", "event-organizer"})
          /\ last'.req.event_id \in DOMAIN events ) =>
           LET e == last'.req.event_id
           IN  /\ last'.code = 204
               /\ e \notin DOMAIN events'
               /\ \A i \in DOMAIN attendances' : attendances'[i].event_id # e
               /\ \A x \in DOMAIN events \ {e} :
                     x \in DOMAIN events' /\ events'[x] = events[x]
               /\ \A i \in DOMAIN attendances :
                     attendances[i].event_id # e =>
                        (i \in DOMAIN attendances' /\ attendances'[i] = attendances[i])
               /\ UNCHANGED <<departments, programs, ssg_profiles>> ]_vars

\* C22: in every step, a row that is excused stays stored and excused; a
\* row changes its status only to excused, by mark_excused_attendance, or
\* from present with no time-out to absent, by mark_absent_no_timeout on a
\* completed event; and a row that is new is present, or excused when
\* mark_excused_attendance added it, and never absent.
C22_StatusTransitions ==
    [][ /\ \A i \in DOMAIN attendances :
              /\ attendances[i].status = "excused" =>
                    (i \in DOMAIN attendances' /\ attendances'[i].status = "excused")
              /\ (i \in DOMAIN attendances' /\ attendances'[i].status # attendances[i].status) =>
                    \/ /\ attendances'[i].status = "excused"
                       /\ last'.op = "mark_excused_attendance"
                    \/ /\ attendances'[i].status = "absent"
                       /\ attendances[i].status = "present"
                       /\ attendances[i].time_out = NULL
                       /\ last'.op = "mark_absent_no_timeout"
                       /\ events[attendances[i].event_id].status = "completed"
        /\ \A i \in DOMAIN attendances' \ DOMAIN attendances :
              \/ attendances'[i].status = "present"
              \/ /\ attendances'[i].status = "excused"
                 /\ last'.op = "mark_excused_attendance" ]_vars

\* C22 witness: mark_excused_attendance has just succeeded and the table
\* holds an excused row with a time-out, which was a closed present row,
\* next to an excused row without one.
C22_Witness ==
    /\ last.op = "mark_excused_attendance"
    /\ last.code = 200
    /\ \E i \in DOMAIN attendances, j \in DOMAIN attendances :
          /\ attendances[i].status = "excused"
          /\ attendances[i].time_out # NULL
          /\ attendances[j].status = "excused"
          /\ attendances[j].time_out = NULL

\* C22 (as claimed): absent and excused are terminal, a row with either
\* status keeps it in every step.
C22_AbsentExcusedTerminal ==
    [][ \A i \in DOMAIN attendances :
           attendances[i].status \in {"absent", "excused"} =>
              (i \in DOMAIN attendances' /\ attendances'[i].status = attendances[i].status) ]_vars

\* C23: an update_event that is rejected (403, 404 or 400: caller without
\* role, unknown event, start not before end, or an id of a provided
\* department, program or SSG-member list that does not resolve) leaves
\* every event as it was: name, location, datetimes, status and the three
\* membership sets.
C23_UpdateRejectedUnchanged ==
    [][ (last'.op = "update_event" /\ last'.code # 200) =>
           /\ last'.code \in {400, 403, 404}
           /\ events' = events ]_vars

\* C23 witness: an update that set fields and replaced the department list
\* was rejected for an unresolvable program id, on an event that has no
\* department and keeps its first name.
C23_Witness ==
    /\ last.op = "update_event"
    /\ last.code = 404
    /\ last.req.event_id \in DOMAIN events
    /\ last.req.update.name = "Assembly"
    /\ last.req.update.department_ids = {<<1>>}
    /\ last.req.update.program_ids = {<<9>>}
    /\ events[last.req.event_id].name = "Orientation"
    /\ events[last.req.event_id].departments = {}

\* C24 (as claimed): a face-scan check-out of a known student is answered
\* 404 when the (student, event) pair has no row with time_out null, and
\* after a call that succeeded the pair has no row with time_out null.
C24_FaceScanTimeoutClosesPair ==
    [][ ( /\ last'.op = "record_face_scan_timeout"
          /\ last'.code # 403
          /\ StudentsByStudentId(last'.req.student_id) # {} ) =>
           LET student == StudentOf(last'.req.student_id).id
               e == last'.req.event_id
           IN  /\ ActiveRowsOfPair(attendances, student, e) = {} => last'.code = 404
               /\ last'.code = 200 => ActiveRowsOfPair(attendances', student, e) = {} ]_vars

\* C25: a request with an accepted token passes the role check of its
\* endpoint exactly when the roles stored for the token's user at the time
\* of the request meet it, whatever role names the token carries: the check
\* for ssg of record_manual_attendance, for ssg, admin or event-organizer of
\* create_event, for admin of delete_user and update_user_roles, and for
\* the target user or admin of update_user and reset_user_password.
C25_RolesReadAtRequest ==
    [][ (bearer' # NoBearer /\ last'.op # "none" /\ get_current_user(bearer') # NULL) =>
           LET user == get_current_user(bearer')
               op == last'.op
               held == users[user].roles
               refused == \/ last'.code = 403
                          \/ op = "create_event" /\ last'.code = 500
               meets ==
                  CASE op = "record_manual_attendance" -> "ssg" \in held
                    [] op = "create_event" ->
                          held \cap {"ssg", "admin", "event-organizer"} # {}
                    [] op \in {"delete_user", "update_user_roles"} -> "admin" \in held
                    [] op \in {"update_user", "reset_user_password"} ->
                          user = last'.req.user_id \/ "admin" \in held
           IN  refused <=> ~meets ]_vars

\* C25 witness: a token issued while its user held the ssg role was refused
\* by the ssg check of record_manual_attendance after the role was taken
\* from the user.
C25_Witness ==
    /\ bearer \in tokens
    /\ "ssg" \in bearer.roles
    /\ last.op = "record_manual_attendance"
    /\ last.code = 403
    /\ bearer.user_id \in DOMAIN users
    /\ users[bearer.user_id].email = bearer.sub
    /\ "ssg" \notin users[bearer.user_id].roles

\* C26: manual, face-scan and bulk check-in, time-out, face-scan time-out,
\* excuse marking and the absentee sweep are answered 403 and leave every
\* attendance row as it was when the caller holds neither the ssg nor the
\* admin role, and the three check-ins also when the caller does not hold
\* the ssg role itself.
C26_AttendanceWritesNeedRole ==
    [][ LET op == last'.op
            CheckIns == {"record_manual_attendance", "record_face_scan_attendance",
                         "record_bulk_attendance"}
            Others == {"record_time_out", "record_face_scan_timeout",
                       "mark_excused_attendance", "mark_absent_no_timeout"}
        IN  (op \in CheckIns \cup Others) =>
               LET held == users[last'.req.caller].roles
               IN  ( \/ held \cap {"ssg", "admin"} = {}
                     \/ op \in CheckIns /\ "ssg" \notin held ) =>
                      (last'.code = 403 /\ attendances' = attendances) ]_vars

\* C26 witness: the student asked for the time-out of a stored row without
\* time-out, was answered 403 and the row is still without time-out.
C26_Witness ==
    /\ last.op = "record_time_out"
    /\ last.code = 403
    /\ users[last.req.caller].roles = {"student"}
    /\ last.req.attendance_id \in DOMAIN attendances
    /\ attendances[last.req.attendance_id].time_out = NULL

\* C27 (as claimed): a request carrying a token that a login issued to a
\* user is either refused as unauthenticated or handled as a request of
\* that very user, whatever users were created and whatever emails were
\* changed since the login.
C27_TokenResolvesToOwner ==
    [][ (bearer' \in tokens /\ last'.op # "none") =>
           IF get_current_user(bearer') = NULL
           THEN last'.code = 401
           ELSE /\ get_current_user(bearer') = bearer'.user_id
                /\ last'.req.caller = bearer'.user_id ]_vars

\* C28: in every step, every attendance row that stays stored keeps its
\* student, its event and its time_in, and keeps its time_out once that is
\* set: a closed row is never active again and never gets another time-out.
C28_TimestampsWriteOnce ==
    [][ \A i \in DOMAIN attendances \cap DOMAIN attendances' :
           /\ attendances'[i].student_id = attendances[i].student_id
           /\ attendances'[i].event_id = attendances[i].event_id
           /\ attendances'[i].time_in = attendances[i].time_in
           /\ attendances[i].time_out # NULL =>
                 attendances'[i].time_out = attendances[i].time_out ]_vars

\* C28 witness: a time-out was asked for a row that an earlier request had
\* closed at an earlier time; it was answered 400 and the row, excused in
\* between, has its first time-out.
C28_Witness ==
    /\ last.op = "record_time_out"
    /\ last.code = 400
    /\ last.req.attendance_id \in DOMAIN attendances
    /\ attendances[last.req.attendance_id].time_out # NULL
    /\ attendances[last.req.attendance_id].time_out < now
    /\ attendances[last.req.attendance_id].time_in < attendances[last.req.attendance_id].time_out
    /\ attendances[last.req.attendance_id].status = "excused"

\* C29 (as claimed): for every stored student profile, the program of the
\* profile is associated with the department of the profile in the
\* program-department relation.
C29_ProfileProgramInDepartment ==
    \A p \in student_profiles : <<p.program_id, p.department_id>> \in program_departments

\* C30 (as claimed): for every student the number of rows counted as
\* attended never exceeds the number of distinct events counted as
\* total_events, and every attendance rate the students overview reports
\* is at most 100 percent.
C30_RateAtMostHundred ==
    /\ \A p \in student_profiles : total_attended(p.id) <= total_events(p.id)
    /\ (last.op = "get_students_attendance_overview" /\ last.code = 200) =>
          \A st \in DOMAIN last.res : last.res[st].attendance_rate <= 100 * 100

====
